---- MODULE Spec2Model ----
(***************************************************************************)
(* PromotionAnalyzer (src/ai_models.py): the dict of trained models, the   *)
(* category LabelEncoder and the is_trained flag, driven by train_models   *)
(* (prepare_data followed by the four slot trainers) and by the four       *)
(* interactive inference operations.                                       *)
(*                                                                         *)
(* Numbers: scores and probabilities are integers in percent (0.5 = 50).   *)
(* Library calls (sklearn fit/predict, statsmodels fit/forecast) are       *)
(* inputs: their outcomes are drawn from small sets.                       *)
(***************************************************************************)
EXTENDS Integers, Sequences, FiniteSets, TLC

VARIABLES
    models,          \* self.models: slot -> stored object (or absent key)
    label_encoders,  \* self.label_encoders: the 'category' entry (or absent key)
    is_trained,      \* self.is_trained
    pc,              \* position of the running train_models call, "idle" if none
    data,            \* the local `data` of the running train_models call
    fits,            \* number of prepare_data invocations so far (names each input)
    ret,             \* how the last train_models call ended / is running
    call,            \* the inference call between its encoder read and its model read
    out,             \* outcome of the last finished inference call
    input,           \* the arguments of one computation taken on its own
    result           \* what that computation returned

vars == <<models, label_encoders, is_trained, pc, data, fits, ret, call, out,
          input, result>>

---------------------------------------------------------------------------
\* Bounds of the exploration.
MaxRuns == 2         \* prepare_data invocations (training inputs) explored
MaxRows == 12        \* rows of the largest sales table
MaxDays == 2         \* largest forecast horizon requested

MaxSales == 11       \* rows of the largest table explored row by row
MaxDate == 11        \* calendar days explored, numbered 1..MaxDate
MaxJoinRows == 2     \* rows of the largest sales table that is joined

\* Constants of the program.
MinRows == 5         \* len(data) < 5
MinPromoRows == 10   \* len(promo_data) < 10
MinDates == 10       \* len(daily_revenue) < 10
DefaultSuccessProb == 50   \* success_prob = 0.5

Slots == {"revenue_prediction", "promotion_success", "time_series", "price_optimization"}

\* Categories in sorted order (LabelEncoder sorts its classes).
CategoryOrder == <<"Electronics", "Furniture">>
Categories == {CategoryOrder[i] : i \in 1..Len(CategoryOrder)}

\* line 42: the label a missing category is replaced with; it sorts last
SortedLabels == CategoryOrder \o <<"Unknown">>

---------------------------------------------------------------------------
\* Stored objects.

\* A key that is not in self.models.
Absent == [st |-> "absent", algo |-> "-", run |-> 0, classes |-> {}, n |-> 0]

\* variant: every operation checks the revenue_prediction key
InRevenue(m, s) == m["revenue_prediction"].st # "absent"

\* 'x' in self.models, the check that opens each inference operation
In(m, s) == m[s].st # "absent"

\* self.models[s] = None (best_model never assigned)
NoneModel(d) ==
    [st |-> "none", algo |-> "-", run |-> d.run, classes |-> {}, n |-> 0]

\* a fitted estimator of algorithm a, fit on the rows of input d
Fitted(a, d) ==
    [st |-> "fitted", algo |-> a, run |-> d.run, classes |-> {}, n |-> 0]

\* a fitted time-series result: n is the length of the daily series it was fit
\* on (len(fittedvalues)), one entry per distinct date
FittedSeries(a, d) == [Fitted(a, d) EXCEPT !.n = d.dates]

\* the categories behind the category_encoded column the revenue model was fit on
FitOn(m, d) == [m EXCEPT !.classes = d.cats]

\* 'category' not in self.label_encoders
NoEncoder == [has |-> FALSE, run |-> 0, classes |-> {}]

NoData == [run |-> 0, rows |-> 0, promo |-> 0, dates |-> 0, cats |-> {},
           hasCat |-> FALSE, yNaN |-> FALSE, oneLabel |-> FALSE]

---------------------------------------------------------------------------
\* Training inputs: what the three tables decide.
\*   run    the number of the prepare_data invocation that received the tables
\*   rows   len(data) after the two left joins (= len(sales_df), ids being unique)
\*   promo  rows with promotion_id not null
\*   dates  distinct values of date
\*   cats   the values of category after fillna('Unknown')
\*   hasCat 'category' in data.columns
\*   yNaN   the revenue column holds a null
\*   oneLabel  the success labels built at line 137 are all equal (they are
\*             built only from 10 promoted rows on)
RowChoices == {0, MinRows - 1, MinRows, MaxRows}
PromoChoices == {0, MinPromoRows - 1, MinPromoRows}
DateChoices == {0, 1, MinDates - 1, MinDates}

Inputs(r) ==
    { d \in [run : {r}, rows : RowChoices, promo : PromoChoices, dates : DateChoices,
             cats : SUBSET Categories, hasCat : BOOLEAN, yNaN : BOOLEAN,
             oneLabel : BOOLEAN] :
        /\ d.promo <= d.rows
        /\ d.dates <= d.rows
        /\ (d.dates = 0) = (d.rows = 0)
        /\ (d.cats = {}) = (d.rows = 0 \/ ~d.hasCat)
        /\ d.yNaN => d.rows > 0
        /\ d.oneLabel => d.promo >= MinPromoRows }

---------------------------------------------------------------------------
\* prepare_data: the encoder it stores (lines 40-43).
prepare_data(enc, d) ==
    IF d.hasCat THEN [has |-> TRUE, run |-> d.run, classes |-> d.cats] ELSE enc

\* LabelEncoder.transform([category])[0]: the rank of the category among the
\* sorted classes; -1 stands for the ValueError on an unseen label.
Rank(c, classes) ==
    Cardinality({i \in 1..Len(SortedLabels) :
        /\ SortedLabels[i] \in classes
        /\ \E j \in 1..Len(SortedLabels) : SortedLabels[j] = c /\ i < j})

transform(enc, c) == IF c \in enc.classes THEN Rank(c, enc.classes) ELSE -1

\* variant: the row check off by one
InsufficientDataBelow(d) == d.rows < MinRows - 1

\* train_models line 60
InsufficientData(d) == d.rows < MinRows

---------------------------------------------------------------------------
\* Scores. r2_score is nan on a test split of fewer than 2 rows; a comparison
\* with nan is False; best_score starts at -inf (regression) or 0 (accuracy).
Num(v) == [k |-> "num", v |-> v]
NaNScore == [k |-> "nan", v |-> 0]
NegInf == [k |-> "ninf", v |-> 0]

Gt(a, b) ==
    CASE a.k = "nan" \/ b.k = "nan" -> FALSE
      [] a.k = "ninf" -> FALSE
      [] b.k = "ninf" -> TRUE
      [] OTHER -> a.v > b.v

\* train_test_split(test_size=0.2): the test split has ceil(0.2 n) rows
TestRows(n) == (n + 4) \div 5

RevenueCandidates == <<"linear_regression", "random_forest", "gradient_boosting">>
SuccessCandidates == <<"logistic_regression", "random_forest">>

\* the selection loop (lines 105-119, 156-165): best is <<best_score, best_model>>,
\* best_model "-" standing for None
RECURSIVE SelectBest(_, _, _, _)
SelectBest(cands, scores, i, best) ==
    IF i > Len(cands) THEN best
    ELSE SelectBest(cands, scores, i + 1,
                    IF Gt(scores[i], best[1]) THEN <<scores[i], cands[i]>> ELSE best)

\* variant: a run that selects no candidate removes the slot's key
StoredOrDropped(best, d) == IF best[2] = "-" THEN Absent ELSE Fitted(best[2], d)

\* lines 121 and 167: the object the trainer assigns to its slot
Stored(best, d) == IF best[2] = "-" THEN NoneModel(d) ELSE Fitted(best[2], d)

RevenueScores(d) ==
    IF TestRows(d.rows) < 2
    THEN {[i \in 1..Len(RevenueCandidates) |-> NaNScore]}
    ELSE [1..Len(RevenueCandidates) -> {Num(-50), Num(80)}]

AccuracyScores == [1..Len(SuccessCandidates) -> {Num(0), Num(50), Num(100)}]

---------------------------------------------------------------------------
\* How a train_models call ends.
NoRet == [status |-> "-", rows |-> 0]
Running(rows) == [status |-> "running", rows |-> rows]
Ended(status, rows) == [status |-> status, rows |-> rows]

\* An inference call that has read the encoder and not yet the model.
NoCall == [op |-> "-", enc |-> 0, code |-> 0, defaulted |-> FALSE, cat |-> "-"]

\* What an inference call printed: status is "not_trained" (the slot check),
\* "error" (the except branch) or "ok" (a result); enc and model name the
\* training input the encoder and the model it read were fit on.
NoOut == [op |-> "-", status |-> "-", value |-> 0, points |-> <<>>, enc |-> 0,
          model |-> 0, defaulted |-> FALSE, cat |-> "-", days |-> 0, band |-> "-"]
NotTrained(op) == [NoOut EXCEPT !.op = op, !.status = "not_trained"]

\* variant: the exception leaves the operation
FailedRaises(op) == [NoOut EXCEPT !.op = op, !.status = "raised"]

\* the except branch (lines 253, 297, 330, 384): the error is printed
Failed(op) == [NoOut EXCEPT !.op = op, !.status = "error"]

\* A finished call whose outcome the caller has not taken yet.
Pending == out # NoOut \/ ret.status \in {"insufficient", "completed", "raised"}

\* no computation is looked at on its own
NoInput == [fn |-> "-"]
NoResult == [fn |-> "-"]

\* __init__, lines 20-23: nothing stored, nothing running
Constructed ==
    /\ models = [s \in Slots |-> Absent]
    /\ label_encoders = NoEncoder
    /\ is_trained = FALSE
    /\ pc = "idle"
    /\ data = NoData
    /\ fits = 0
    /\ ret = NoRet
    /\ call = NoCall
    /\ out = NoOut

Init ==
    /\ Constructed
    /\ input = NoInput
    /\ result = NoResult

\* variant: the flag is set when a trainer fails
RaiseTrained ==
    /\ pc' = "idle"
    /\ data' = NoData
    /\ ret' = Ended("raised", data.rows)
    /\ is_trained' = TRUE
    /\ UNCHANGED models

\* an exception leaves the trainer and train_models (no handler on the way)
Raise ==
    /\ pc' = "idle"
    /\ data' = NoData
    /\ ret' = Ended("raised", data.rows)
    /\ UNCHANGED <<models, is_trained>>

\* train_models, lines 58-62: prepare_data, the row check, the early return
TrainModels(exclusive) ==
    /\ ~Pending
    /\ exclusive => call = NoCall
    /\ pc = "idle"
    /\ fits < MaxRuns
    /\ \E d \in Inputs(fits + 1) :
        /\ fits' = fits + 1
        /\ label_encoders' = prepare_data(label_encoders, d)
        /\ IF InsufficientData(d)
           THEN /\ pc' = "idle"
                /\ data' = NoData
                /\ ret' = Ended("insufficient", d.rows)
           ELSE /\ pc' = "revenue"
                /\ data' = d
                /\ ret' = Running(d.rows)
    /\ UNCHANGED <<models, is_trained, call, out>>
    /\ UNCHANGED <<input, result>>

train_models == TrainModels(TRUE)

\* prepare_data called on its own (simple_model.py train_ai_models, line 217)
PrepareData(exclusive) ==
    /\ ~Pending
    /\ exclusive => call = NoCall
    /\ pc = "idle"
    /\ fits < MaxRuns
    /\ \E d \in Inputs(fits + 1) :
        /\ fits' = fits + 1
        /\ label_encoders' = prepare_data(label_encoders, d)
    /\ UNCHANGED <<models, is_trained, pc, data, ret, call, out>>
    /\ UNCHANGED <<input, result>>

prepare_data_call == PrepareData(TRUE)

\* train_revenue_model, lines 79-122
train_revenue_model ==
    /\ ~Pending
    /\ pc = "revenue"
    /\ IF ~data.hasCat \/ (data.rows >= MinRows /\ data.yNaN)
       THEN Raise     \* KeyError 'category_encoded' / ValueError on nan
       ELSE /\ IF data.rows < MinRows
               THEN UNCHANGED models
               ELSE \E sc \in RevenueScores(data) :
                      models' = [models EXCEPT !["revenue_prediction"] =
                          FitOn(Stored(SelectBest(RevenueCandidates, sc, 1, <<NegInf, "-">>),
                                       data), data)]
            /\ pc' = "promotion"
            /\ UNCHANGED <<data, ret, is_trained>>
    /\ UNCHANGED <<label_encoders, fits, call, out>>
    /\ UNCHANGED <<input, result>>

\* train_promotion_success_model, lines 124-168; classes is the number of
\* distinct labels in y_train (LogisticRegression.fit raises on one class)
train_promotion_success_model ==
    /\ ~Pending
    /\ pc = "promotion"
    /\ IF data.promo < MinPromoRows
       THEN /\ pc' = "time_series"
            /\ UNCHANGED <<models, data, ret, is_trained>>
       ELSE \E classes \in (IF data.oneLabel THEN {1} ELSE {1, 2}) :
              IF classes < 2
              THEN Raise
              ELSE /\ \E sc \in AccuracyScores :
                        models' = [models EXCEPT !["promotion_success"] =
                            Stored(SelectBest(SuccessCandidates, sc, 1, <<Num(0), "-">>), data)]
                   /\ pc' = "time_series"
                   /\ UNCHANGED <<data, ret, is_trained>>
    /\ UNCHANGED <<label_encoders, fits, call, out>>
    /\ UNCHANGED <<input, result>>

\* variant: exponential smoothing is the first fit tried
SeriesModelsReversed == <<"exponential_smoothing", "arima">>

\* the fits train_time_series_model tries, in order (lines 187 and 194)
SeriesModels == <<"arima", "exponential_smoothing">>

\* train_time_series_model, lines 170-190: the daily series, the date check and
\* the first fit; a failed fit enters the handler at line 191
train_time_series_model ==
    /\ ~Pending
    /\ pc = "time_series"
    /\ IF data.dates < MinDates
       THEN /\ UNCHANGED models
            /\ pc' = "price"
       ELSE \E fitted \in BOOLEAN :
              IF fitted
              THEN /\ models' = [models EXCEPT !["time_series"] =
                                    FittedSeries(SeriesModels[1], data)]
                   /\ pc' = "price"
              ELSE /\ UNCHANGED models
                   /\ pc' = "smoothing"
    /\ UNCHANGED <<label_encoders, is_trained, data, fits, ret, call, out>>
    /\ UNCHANGED <<input, result>>

\* lines 191-199: the second fit, on the same series; its failure is caught too
train_time_series_model_except ==
    /\ ~Pending
    /\ pc = "smoothing"
    /\ \E fitted \in BOOLEAN :
          models' = IF fitted
                    THEN [models EXCEPT !["time_series"] =
                             FittedSeries(SeriesModels[2], data)]
                    ELSE models
    /\ pc' = "price"
    /\ UNCHANGED <<label_encoders, is_trained, data, fits, ret, call, out>>
    /\ UNCHANGED <<input, result>>

\* train_price_optimization_model, lines 201-219
train_price_optimization_model ==
    /\ ~Pending
    /\ pc = "price"
    /\ IF data.rows >= MinRows /\ data.yNaN
       THEN Raise
       ELSE /\ models' = IF data.rows < MinRows THEN models
                         ELSE [models EXCEPT !["price_optimization"] =
                                  Fitted("linear_regression", data)]
            /\ pc' = "set_trained"
            /\ UNCHANGED <<data, ret, is_trained>>
    /\ UNCHANGED <<label_encoders, fits, call, out>>
    /\ UNCHANGED <<input, result>>

\* train_models, lines 76-77
train_models_return ==
    /\ ~Pending
    /\ pc = "set_trained"
    /\ is_trained' = TRUE
    /\ pc' = "idle"
    /\ data' = NoData
    /\ ret' = Ended("completed", data.rows)
    /\ UNCHANGED <<models, label_encoders, fits, call, out>>
    /\ UNCHANGED <<input, result>>

---------------------------------------------------------------------------
\* Inference.

\* values a fitted regressor's predict can return
Predictions == {-5, 0, 7}
\* values of the positive-class probability, in percent
Probabilities == {0, 50, 70, 100}
\* values of one forecast point
ForecastValues == {0, 40}

\* hasattr(model, name): None has neither method; the fitted classifiers have
\* predict_proba; ARIMAResults and HoltWintersResults both have forecast and predict
HasAttr(m, name) ==
    /\ m.st = "fitted"
    /\ name \in (IF m.algo \in {"arima", "exponential_smoothing"}
                 THEN {"forecast", "predict"}
                 ELSE {"predict", "predict_proba"})

\* lines 237-240 and 272-275: the category code and whether it is the default
Encode(enc, cat) ==
    IF enc.has
    THEN [code |-> transform(enc, cat), defaulted |-> FALSE, enc |-> enc.run]
    ELSE [code |-> 0, defaulted |-> TRUE, enc |-> 0]

\* lines 221-246 and 256-279: the slot check, the inputs, the category code
Begin(op, exclusive) ==
    /\ ~Pending
    /\ exclusive => pc = "idle"
    /\ call = NoCall
    /\ IF ~In(models, op)
       THEN /\ out' = NotTrained(op)
            /\ call' = NoCall
       ELSE \E inputOk \in BOOLEAN, cat \in Categories :
              LET e == Encode(label_encoders, cat) IN
              IF ~inputOk \/ e.code < 0
              THEN /\ out' = [Failed(op) EXCEPT !.cat = cat]
                   /\ call' = NoCall
              ELSE /\ out' = NoOut
                   /\ call' = [op |-> op, enc |-> e.enc, code |-> e.code,
                               defaulted |-> e.defaulted, cat |-> cat]
    /\ UNCHANGED <<models, label_encoders, is_trained, pc, data, fits, ret>>
    /\ UNCHANGED <<input, result>>

revenue_prediction == Begin("revenue_prediction", TRUE)

promotion_success_analysis == Begin("promotion_success", TRUE)

\* line 251: the revenue that is reported for a prediction
ReportedRevenue(prediction) == prediction

Result(v) ==
    [NoOut EXCEPT !.op = call.op, !.status = "ok", !.value = v, !.enc = call.enc,
                  !.model = models[call.op].run, !.defaulted = call.defaulted,
                  !.cat = call.cat]

\* lines 248-254: predict and print
revenue_prediction_predict ==
    /\ ~Pending
    /\ call.op = "revenue_prediction"
    /\ IF HasAttr(models[call.op], "predict")
       THEN \E prediction \in Predictions : out' = Result(ReportedRevenue(prediction))
       ELSE out' = [Failed(call.op) EXCEPT !.cat = call.cat]   \* None has no predict
    /\ call' = NoCall
    /\ UNCHANGED <<models, label_encoders, is_trained, pc, data, fits, ret>>
    /\ UNCHANGED <<input, result>>

\* predict_proba(features)[0]: the probabilities of class 0 and class 1
predict_proba == {<<100 - p, p>> : p \in Probabilities}

\* variant: the difference of the two class probabilities
SuccessMargin(proba) == proba[2] - proba[1]

\* line 284: proba[1], the second entry
SuccessProb(proba) == proba[2]

\* lines 290-295: the message printed for a success probability
Band(success_prob) ==
    IF success_prob > 70 THEN "high"
    ELSE IF success_prob > 50 THEN "medium"
    ELSE "low"

\* lines 281-298
promotion_success_analysis_predict ==
    /\ ~Pending
    /\ call.op = "promotion_success"
    /\ IF HasAttr(models[call.op], "predict_proba")
       THEN \E proba \in predict_proba :
              out' = [Result(SuccessProb(proba)) EXCEPT !.band = Band(SuccessProb(proba))]
       ELSE out' = [Result(DefaultSuccessProb) EXCEPT !.band = Band(DefaultSuccessProb)]
    /\ call' = NoCall
    /\ UNCHANGED <<models, label_encoders, is_trained, pc, data, fits, ret>>
    /\ UNCHANGED <<input, result>>

\* results.forecast(steps): the next `steps` values
forecast(steps) == UNION {[1..n -> ForecastValues] : n \in {steps}}

\* results.predict(start, end): the values of the positions start..end, both included
predict(start, end) == UNION {[1..n -> ForecastValues] : n \in {end - start + 1}}

\* lines 313-321: the call that produces the forecast; {} when the model has neither
Forecasts(m, days) ==
    IF HasAttr(m, "forecast") THEN forecast(days)
    ELSE IF HasAttr(m, "predict") THEN predict(m.n, m.n + days - 1)
    ELSE {}

\* variant: enumerate(forecast), counting from 0
EnumerateFromZero(f) == [i \in 1..Len(f) |-> <<i - 1, f[i]>>]

\* line 324: enumerate(forecast, 1)
Enumerate(f) == [i \in 1..Len(f) |-> <<i, f[i]>>]

\* time_series_forecasting, lines 300-331
TimeSeriesForecasting(exclusive) ==
    /\ ~Pending
    /\ exclusive => pc = "idle"
    /\ call = NoCall
    /\ IF ~In(models, "time_series")
       THEN out' = NotTrained("time_series")
       ELSE \E inputOk \in BOOLEAN, days \in 1..MaxDays :
              IF ~inputOk
              THEN out' = Failed("time_series")
              ELSE LET m == models["time_series"] IN
                   IF Forecasts(m, days) = {}
                   THEN out' = [NoOut EXCEPT !.op = "time_series", !.status = "unsupported"]
                   ELSE \E f \in Forecasts(m, days) :
                          out' = [NoOut EXCEPT !.op = "time_series", !.status = "ok",
                                               !.points = Enumerate(f), !.days = days,
                                               !.model = m.run]
    /\ UNCHANGED <<models, label_encoders, is_trained, pc, data, fits, ret, call>>
    /\ UNCHANGED <<input, result>>

time_series_forecasting == TimeSeriesForecasting(TRUE)

\* values of current_revenue and of the model's prediction for a candidate
PriceRevenues == {0, 7}

\* variant: a wider band of candidate prices
TestPricesWide(current_price) ==
    <<(current_price * 80) \div 100, (current_price * 90) \div 100, current_price,
      (current_price * 110) \div 100, (current_price * 120) \div 100>>

\* lines 348-349: the five candidate prices (whole numbers for the prices explored)
test_prices(current_price) ==
    <<(current_price * 90) \div 100, (current_price * 95) \div 100, current_price,
      (current_price * 105) \div 100, (current_price * 110) \div 100>>

\* the candidates of a current price of 100
TestPrices == test_prices(100)

\* line 358: the candidates the loop body runs for, the only ones passed to predict
Scored(prices, current_price) == {i \in 1..Len(prices) : prices[i] # current_price}

\* variant: a candidate also replaces the best one when it equals it
RECURSIVE SearchLastBest(_, _, _, _, _)
SearchLastBest(prices, current_price, predicted, i, best) ==
    IF i > Len(prices) THEN best
    ELSE SearchLastBest(prices, current_price, predicted, i + 1,
                        IF i \in Scored(prices, current_price) /\ predicted[i] >= best[2]
                        THEN <<prices[i], predicted[i]>> ELSE best)

\* lines 351-372: the search; best is <<best_price, best_revenue>>, predicted[i]
\* what the stored model returns for candidate i
RECURSIVE Search(_, _, _, _, _)
Search(prices, current_price, predicted, i, best) ==
    IF i > Len(prices) THEN best
    ELSE Search(prices, current_price, predicted, i + 1,
                IF i \in Scored(prices, current_price) /\ predicted[i] > best[2]
                THEN <<prices[i], predicted[i]>> ELSE best)

\* price_optimization, lines 333-385
PriceOptimization(exclusive) ==
    /\ ~Pending
    /\ exclusive => pc = "idle"
    /\ call = NoCall
    /\ IF ~In(models, "price_optimization")
       THEN out' = NotTrained("price_optimization")
       ELSE \E inputOk \in BOOLEAN, current_revenue \in PriceRevenues,
               predicted \in [1..Len(TestPrices) -> PriceRevenues] :
              IF ~inputOk
              THEN out' = Failed("price_optimization")
              ELSE out' = [NoOut EXCEPT !.op = "price_optimization", !.status = "ok",
                               !.value = Search(TestPrices, 100, predicted, 1,
                                                <<100, current_revenue>>)[1],
                               !.model = models["price_optimization"].run]
    /\ UNCHANGED <<models, label_encoders, is_trained, pc, data, fits, ret, call>>
    /\ UNCHANGED <<input, result>>

price_optimization == PriceOptimization(TRUE)

\* The price search on its own (lines 343-382): the prices and revenues typed in
\* and, for each candidate, what the stored model would return for it.
CurrentPrices == {0, 20, 100}
SearchRevenues == {0, 7, 9}

CurrentQuantities == {4, 10}

\* variant: the quantity falls as fast as the price rises
NewQuantityUnitElastic(current_quantity, test_price, current_price) ==
    LET price_change == ((test_price - current_price) * 1000) \div current_price
    IN current_quantity * (1000 - price_change)

\* lines 360-362, in thousandths: price_change = (test_price - current_price) /
\* current_price, quantity_change = -0.5 * price_change, new_quantity =
\* current_quantity * (1 + quantity_change)
new_quantity(current_quantity, test_price, current_price) ==
    LET price_change == ((test_price - current_price) * 1000) \div current_price
        quantity_change == (-5 * price_change) \div 10
    IN current_quantity * (1000 + quantity_change)

PriceInputs ==
    [fn : {"price_optimization"}, current_price : CurrentPrices,
     current_quantity : CurrentQuantities,
     current_revenue : SearchRevenues,
     predicted : [1..Len(TestPrices) -> SearchRevenues]]

\* lines 374-382: the recommendation that is printed
Advice(best_price, current_price) ==
    IF best_price < current_price THEN "decrease"
    ELSE IF best_price > current_price THEN "increase"
    ELSE "hold"

price_optimization_search ==
    /\ input.fn = "price_optimization"
    /\ result = NoResult
    /\ LET prices == test_prices(input.current_price)
           best == Search(prices, input.current_price, input.predicted, 1,
                          <<input.current_price, input.current_revenue>>)
       IN result' = [fn |-> "price_optimization", price |-> best[1], revenue |-> best[2],
                     scored |-> Scored(prices, input.current_price),
                     quantity |-> [i \in Scored(prices, input.current_price) |->
                                     new_quantity(input.current_quantity, prices[i],
                                                  input.current_price)],
                     advice |-> Advice(best[1], input.current_price)]
    /\ UNCHANGED <<models, label_encoders, is_trained, pc, data, fits, ret, call, out,
                   input>>

InitPrice ==
    /\ Constructed
    /\ input \in PriceInputs
    /\ result = NoResult

NextPrice == price_optimization_search

SpecPrice == InitPrice /\ [][NextPrice]_vars

\* The selection loop on its own (lines 102-121 and 153-167): for each
\* candidate the test-split score and the mean cross-validation score.
Candidates(trainer) ==
    IF trainer = "revenue_prediction" THEN RevenueCandidates ELSE SuccessCandidates

\* lines 102 and 153: best_score before the loop
InitialBestScore(trainer) ==
    IF trainer = "revenue_prediction" THEN NegInf ELSE Num(0)

\* r2_score is a number or nan; accuracy_score is a number in 0..100
TestScores(trainer) ==
    IF trainer = "revenue_prediction" THEN {NaNScore, Num(-50), Num(80)}
    ELSE {Num(0), Num(50), Num(100)}

\* cv_score (line 108); the promotion-success trainer computes none
CvScores(trainer) ==
    IF trainer = "revenue_prediction" THEN {NaNScore, Num(90)} ELSE {NaNScore}

SelectInputs ==
    UNION { [fn : {"select"}, trainer : {t},
             test_score : [1..Len(Candidates(t)) -> TestScores(t)],
             cv_score : [1..Len(Candidates(t)) -> CvScores(t)]] :
            t \in {"revenue_prediction", "promotion_success"} }

select_best_model ==
    /\ input.fn = "select"
    /\ result = NoResult
    /\ result' = [fn |-> "select",
                  stored |-> Stored(SelectBest(Candidates(input.trainer), input.test_score, 1,
                                               <<InitialBestScore(input.trainer), "-">>),
                                    NoData)]
    /\ UNCHANGED <<models, label_encoders, is_trained, pc, data, fits, ret, call, out,
                   input>>

InitSelect ==
    /\ Constructed
    /\ input \in SelectInputs
    /\ result = NoResult

NextSelect == select_best_model

SpecSelect == InitSelect /\ [][NextSelect]_vars

\* The rows of the promotion-success trainer on their own (lines 129-145): the
\* promotion_id column of the feature table, one cell per row.

\* a null cell (None, NaN); ids and amounts are never negative
Null == -1

\* Series.notna, cell by cell
notna(x) == x # Null

\* line 34: has_promotion of a row
has_promotion(promotion_id) == IF notna(promotion_id) THEN 1 ELSE 0

\* variant: no row is filtered out
PromoDataAll(promotion_id) == DOMAIN promotion_id

\* line 129: the rows of data[data['has_promotion'] == 1]
promo_data(promotion_id) ==
    {i \in DOMAIN promotion_id : has_promotion(promotion_id[i]) = 1}

\* line 145: the train splits train_test_split can return, all rows but the
\* ceil(0.2 n) test rows
TrainSplits(rows) ==
    {t \in SUBSET rows : Cardinality(t) = Cardinality(rows) - TestRows(Cardinality(rows))}

PromoInputs ==
    UNION { [fn : {"promotion_rows"}, promotion_id : [1..n -> {Null, 1}]] :
            n \in 0..MaxSales }

\* lines 129-168: the early return, the split, the fit (which raises on one
\* class) and the assignment
train_promotion_success_rows ==
    /\ input.fn = "promotion_rows"
    /\ result = NoResult
    /\ LET rows == promo_data(input.promotion_id) IN
       IF Cardinality(rows) < MinPromoRows
       THEN result' = [fn |-> "promotion_rows", status |-> "insufficient",
                       written |-> FALSE, fit_rows |-> {}]
       ELSE \E X_train \in TrainSplits(rows), classes \in {1, 2} :
              result' = IF classes < 2
                        THEN [fn |-> "promotion_rows", status |-> "raised",
                              written |-> FALSE, fit_rows |-> X_train]
                        ELSE [fn |-> "promotion_rows", status |-> "stored",
                              written |-> TRUE, fit_rows |-> X_train]
    /\ UNCHANGED <<models, label_encoders, is_trained, pc, data, fits, ret, call, out,
                   input>>

InitPromo ==
    /\ Constructed
    /\ input \in PromoInputs
    /\ result = NoResult

NextPromo == train_promotion_success_rows

SpecPromo == InitPromo /\ [][NextPromo]_vars

\* The daily series of the time-series trainer on its own (lines 174-199):
\* the date and revenue columns of the feature table, a date being a day number.

\* the k-th smallest element of a set of numbers
Nth(S, k) == CHOOSE d \in S : Cardinality({e \in S : e < d}) = k - 1

\* sum of the revenue of the rows i.. of sales whose date is d
RECURSIVE SumRevenue(_, _, _)
SumRevenue(sales, d, i) ==
    IF i > Len(sales) THEN 0
    ELSE (IF sales[i].date = d THEN sales[i].revenue ELSE 0) + SumRevenue(sales, d, i + 1)

\* variant: a date keeps the revenue of its first sale
DailyRevenueFirst(sales) ==
    LET dates == {sales[i].date : i \in DOMAIN sales}
    IN [k \in 1..Cardinality(dates) |->
          [date |-> Nth(dates, k),
           revenue |-> sales[CHOOSE i \in DOMAIN sales :
                                /\ sales[i].date = Nth(dates, k)
                                /\ \A j \in 1..(i - 1) : sales[j].date # Nth(dates, k)].revenue]]

\* lines 175-176: groupby('date')['revenue'].sum(), sorted by date: one entry
\* per date that has a sale
daily_revenue(sales) ==
    LET dates == {sales[i].date : i \in DOMAIN sales}
    IN [k \in 1..Cardinality(dates) |->
          [date |-> Nth(dates, k), revenue |-> SumRevenue(sales, Nth(dates, k), 1)]]

\* a sales table: one sale of revenue 10 on each date of D, newest first, and
\* a second sale of revenue 5 on the date again (if any)
SalesOn(D, again) ==
    [i \in 1..Cardinality(D) |->
        [date |-> Nth(D, Cardinality(D) + 1 - i), revenue |-> 10]]
    \o (IF again \in D THEN <<[date |-> again, revenue |-> 5]>> ELSE <<>>)

SeriesInputs ==
    { [fn |-> "daily_revenue", sales |-> SalesOn(D, again)] :
        D \in SUBSET (1..MaxDate), again \in 0..MaxDate }

\* lines 174-199: the series, the early return, the fits (either may fail) and
\* the assignment
train_time_series_rows ==
    /\ input.fn = "daily_revenue"
    /\ result = NoResult
    /\ LET series == daily_revenue(input.sales) IN
       IF Len(series) < MinDates
       THEN result' = [fn |-> "daily_revenue", status |-> "insufficient",
                       written |-> FALSE, series |-> <<>>]
       ELSE \E fitted \in BOOLEAN :
              result' = [fn |-> "daily_revenue",
                         status |-> IF fitted THEN "stored" ELSE "not_fitted",
                         written |-> fitted, series |-> series]
    /\ UNCHANGED <<models, label_encoders, is_trained, pc, data, fits, ret, call, out,
                   input>>

InitSeries ==
    /\ Constructed
    /\ input \in SeriesInputs
    /\ result = NoResult

NextSeries == train_time_series_rows

SpecSeries == InitSeries /\ [][NextSeries]_vars

\* prepare_data on its own (lines 29-43) and the feature matrix of the revenue
\* trainer (lines 84-85), row by row.

\* a null text cell
NullText == "null"

\* the right-hand columns of a left row without a match
NullProduct == [id |-> Null, category |-> NullText, price |-> Null]
NullPromotion == [id |-> Null, discount |-> Null]

\* variant: merge(how='inner'), a left row without a match is dropped
RECURSIVE InnerMerge(_, _, _, _, _)
InnerMerge(left, keys, right, fill, i) ==
    IF i > Len(left) THEN <<>>
    ELSE LET m == SelectSeq(right, LAMBDA r : r.id = keys[i])
         IN [k \in 1..Len(m) |-> [left |-> left[i], right |-> m[k]]]
            \o InnerMerge(left, keys, right, fill, i + 1)

\* lines 30-31: merge(how='left') on keys[i] = id: a left row is paired with
\* every right row of that id, or once with nulls when there is none
RECURSIVE merge(_, _, _, _, _)
merge(left, keys, right, fill, i) ==
    IF i > Len(left) THEN <<>>
    ELSE LET m == SelectSeq(right, LAMBDA r : r.id = keys[i])
         IN (IF m = <<>> THEN <<[left |-> left[i], right |-> fill]>>
             ELSE [k \in 1..Len(m) |-> [left |-> left[i], right |-> m[k]]])
            \o merge(left, keys, right, fill, i + 1)

\* arithmetic on cells: a null operand gives null
Times(a, b) == IF a = Null \/ b = Null THEN Null ELSE a * b
Over(a, b) == IF a = Null THEN Null ELSE a \div b

\* fillna
fillna(x, v) == IF x = Null THEN v ELSE x
FillText(x, v) == IF x = NullText THEN v ELSE x

\* line 36: data['net_revenue'] = data['revenue']
net_revenue(revenue) == revenue

\* lines 30-43: the rows of `data`; sale is the id of the sales record
PreparedRows(products, promotions, sales) ==
    LET bySale == merge(sales, [i \in DOMAIN sales |-> sales[i].product_id],
                        products, NullProduct, 1)
        joined == merge(bySale, [i \in DOMAIN bySale |-> bySale[i].left.promotion_id],
                        promotions, NullPromotion, 1)
        filled == [i \in DOMAIN joined |->
                      FillText(joined[i].left.right.category, "Unknown")]
        le == [has |-> TRUE, run |-> 0, classes |-> {filled[i] : i \in DOMAIN filled}]
    IN [i \in DOMAIN joined |->
          LET sale == joined[i].left.left
              product == joined[i].left.right
              promotion == joined[i].right
          IN [sale |-> sale.id,
              promotion_id |-> sale.promotion_id,
              price |-> product.price,
              quantity |-> sale.quantity,
              revenue |-> sale.revenue,
              net_revenue |-> net_revenue(sale.revenue),
              discount |-> promotion.discount,
              has_promotion |-> has_promotion(sale.promotion_id),
              discount_amount |->
                  Times(Over(Times(product.price, promotion.discount), 100),
                        has_promotion(sale.promotion_id)),
              category |-> filled[i],
              category_encoded |-> transform(le, filled[i])]]

\* lines 84-85: X = data[features].fillna(0)
Features(rows) ==
    [i \in DOMAIN rows |->
        [price |-> fillna(rows[i].price, 0),
         discount_amount |-> fillna(rows[i].discount_amount, 0),
         quantity |-> fillna(rows[i].quantity, 0),
         category_encoded |-> rows[i].category_encoded,
         has_promotion |-> rows[i].has_promotion]]

\* products 1 (Electronics) and 2 (no category); the last table repeats id 1
ProductTables ==
    LET p1 == [id |-> 1, category |-> "Electronics", price |-> 100]
        p2 == [id |-> 2, category |-> NullText, price |-> 50]
    IN {<<>>, <<p1>>, <<p1, p2>>, <<p1, [p1 EXCEPT !.price = 50]>>}

\* promotion 1; the last table repeats id 1
PromotionTables ==
    LET q1 == [id |-> 1, discount |-> 20]
    IN {<<>>, <<q1>>, <<q1, [q1 EXCEPT !.discount = 10]>>}

\* sales of product 1, 2 or 3 (3 is no product) with promotion 1, 2 (no
\* promotion of that id) or none
SalesTables ==
    UNION { { [i \in 1..n |-> [id |-> i, product_id |-> t[i][1], promotion_id |-> t[i][2],
                               quantity |-> 2, revenue |-> 200]] :
              t \in [1..n -> {1, 2, 3} \X {Null, 1, 2}] } :
            n \in 0..MaxJoinRows }

PrepareInputs ==
    [fn : {"prepare_data"}, products : ProductTables, promotions : PromotionTables,
     sales : SalesTables]

prepare_data_rows ==
    /\ input.fn = "prepare_data"
    /\ result = NoResult
    /\ LET rows == PreparedRows(input.products, input.promotions, input.sales)
       IN result' = [fn |-> "prepare_data", rows |-> rows, X |-> Features(rows),
                     classes |-> {rows[i].category : i \in DOMAIN rows}]
    /\ UNCHANGED <<models, label_encoders, is_trained, pc, data, fits, ret, call, out,
                   input>>

InitPrepare ==
    /\ Constructed
    /\ input \in PrepareInputs
    /\ result = NoResult

NextPrepare == prepare_data_rows

SpecPrepare == InitPrepare /\ [][NextPrepare]_vars

\* The success labels on their own (lines 136-137): the revenue column of
\* promo_data, 10 or 11 rows.
LabelRows == {MinPromoRows, MinPromoRows + 1}
LabelRevenues == {10, 20, 30}

\* the k-th smallest value of a column
Sorted(col, k) ==
    CHOOSE v \in {col[i] : i \in DOMAIN col} :
        /\ Cardinality({i \in DOMAIN col : col[i] < v}) < k
        /\ Cardinality({i \in DOMAIN col : col[i] <= v}) >= k

\* Series.median(), doubled: the middle value, or the mean of the two middle
\* values of a column of even length
Median2(col) ==
    LET n == Len(col)
    IN IF n % 2 = 1 THEN 2 * Sorted(col, (n + 1) \div 2)
       ELSE Sorted(col, n \div 2) + Sorted(col, n \div 2 + 1)

\* variant: success = revenue >= median
SuccessAtMedian(revenue, median2) == IF 2 * revenue >= median2 THEN 1 ELSE 0

\* line 137: success = (revenue > median_revenue).astype(int)
success(revenue, median2) == IF 2 * revenue > median2 THEN 1 ELSE 0

LabelInputs ==
    UNION { [fn : {"success"}, revenue : [1..n -> LabelRevenues]] : n \in LabelRows }

promo_data_success ==
    /\ input.fn = "success"
    /\ result = NoResult
    /\ LET median2 == Median2(input.revenue)
       IN result' = [fn |-> "success", median2 |-> median2,
                     success |-> [i \in DOMAIN input.revenue |->
                                     success(input.revenue[i], median2)]]
    /\ UNCHANGED <<models, label_encoders, is_trained, pc, data, fits, ret, call, out,
                   input>>

InitLabels ==
    /\ Constructed
    /\ input \in LabelInputs
    /\ result = NoResult

NextLabels == promo_data_success

SpecLabels == InitLabels /\ [][NextLabels]_vars

\* The two AI-backed operations of AdvancedPromotionSystem (simple_model.py,
\* lines 234-286 and 347-411) on their own: what storage holds, whether the
\* models are trained, what the clock reads and how the revenue model behaves.

\* ai_models.py line 49: Series.dt.quarter, the calendar quarter of a month
dt_quarter(month) == (month - 1) \div 3 + 1

\* simple_model.py lines 259, 271, 373, 385, 397: datetime.now().month // 3 + 1
quarter(month) == month \div 3 + 1

\* a reading of datetime.now(): month, weekday, and whether the day is the
\* last of its month
Clocks == [month : 1..12, day_of_week : {0, 6}, month_end : BOOLEAN]

\* the reading one day later
NextDay(t) ==
    [month |-> IF t.month_end THEN (t.month % 12) + 1 ELSE t.month,
     day_of_week |-> (t.day_of_week + 1) % 7,
     month_end |-> FALSE]

\* datetime.now() in the k-th prediction call; midnight is the number of the
\* first call made after midnight (0: the day does not change)
Now(t, midnight, k) == IF midnight # 0 /\ k >= midnight THEN NextDay(t) ELSE t

\* lines 364-373, 376-385, 388-397: the arguments of a predict_revenue call of
\* optimize_price_advanced; no price is among them
OptimizeArgs(category, t) ==
    [product_id |-> 0, quantity |-> 2, has_promotion |-> 0, discount |-> 0,
     category |-> category, month |-> t.month, day_of_week |-> t.day_of_week,
     quarter |-> quarter(t.month)]

\* lines 253-260 and 263-272: the arguments of the two prediction calls of
\* analyze_promotion_advanced
AnalyzeArgs(category, discount, t) ==
    <<[price |-> 100, quantity |-> 2, discount |-> discount, category |-> category,
       month |-> t.month, quarter |-> quarter(t.month)],
      [product_id |-> 0, quantity |-> 2, has_promotion |-> 1, discount |-> discount,
       category |-> category, month |-> t.month, day_of_week |-> t.day_of_week,
       quarter |-> quarter(t.month)]>>

\* no prediction (None)
NoPrediction == -1

\* predict_revenue of a trained model: a function of its arguments alone
RevenueModels == {"none", "constant", "by_month", "by_weekday"}
predict_revenue(model, args) ==
    CASE model = "none" -> NoPrediction
      [] model = "constant" -> 7
      [] model = "by_month" -> args.month
      [] model = "by_weekday" -> args.day_of_week

\* lines 514-524
get_optimal_pricing_strategy(current, higher, lower) ==
    IF current = NoPrediction \/ higher = NoPrediction \/ lower = NoPrediction
    THEN "analyzing"
    ELSE IF higher > current /\ higher > lower THEN "raise"
    ELSE IF lower > current /\ lower > higher THEN "lower"
    ELSE "hold"

\* promotion: the promotions row of the id asked for, and the product its
\* product_id names; product: the products row of the id asked for
AdvancedInputs ==
    [fn : {"analyze_promotion_advanced"},
     promotion : {"missing", "no_product_id", "product_missing", "ok"},
     is_trained : BOOLEAN, now : Clocks, midnight : {0}, model : {"constant"}]
    \cup
    [fn : {"optimize_price_advanced"}, product : {"missing", "ok"},
     is_trained : BOOLEAN, now : Clocks, midnight : {0, 2, 3}, model : RevenueModels]

NoAdvanced(fn, status) == [fn |-> fn, status |-> status, args |-> <<>>, strategy |-> "-"]

\* analyze_promotion_advanced, lines 234-286: "raised" is the IndexError of
\* .iloc[0] on an empty selection (line 250), which nothing catches
analyze_promotion_advanced ==
    /\ input.fn = "analyze_promotion_advanced"
    /\ result = NoResult
    /\ result' =
         IF input.promotion = "missing" THEN NoAdvanced(input.fn, "error")
         ELSE IF ~input.is_trained THEN NoAdvanced(input.fn, "basic")
         ELSE IF input.promotion # "ok" THEN NoAdvanced(input.fn, "raised")
         ELSE [NoAdvanced(input.fn, "advanced") EXCEPT
                  !.args = AnalyzeArgs("Electronics", 20, input.now)]
    /\ UNCHANGED <<models, label_encoders, is_trained, pc, data, fits, ret, call, out,
                   input>>

\* optimize_price_advanced, lines 347-411
optimize_price_advanced ==
    /\ input.fn = "optimize_price_advanced"
    /\ result = NoResult
    /\ result' =
         IF input.product = "missing" THEN NoAdvanced(input.fn, "error")
         ELSE IF ~input.is_trained THEN NoAdvanced(input.fn, "basic")
         ELSE LET args == [k \in 1..3 |->
                             OptimizeArgs("Electronics", Now(input.now, input.midnight, k))]
                  current_revenue == predict_revenue(input.model, args[1])
                  higher_price_revenue == predict_revenue(input.model, args[2])
                  lower_price_revenue == predict_revenue(input.model, args[3])
              IN [NoAdvanced(input.fn, "advanced") EXCEPT
                     !.args = args,
                     !.strategy = get_optimal_pricing_strategy(
                         current_revenue, higher_price_revenue, lower_price_revenue)]
    /\ UNCHANGED <<models, label_encoders, is_trained, pc, data, fits, ret, call, out,
                   input>>

InitAdvanced ==
    /\ Constructed
    /\ input \in AdvancedInputs
    /\ result = NoResult

NextAdvanced ==
    \/ analyze_promotion_advanced
    \/ optimize_price_advanced

SpecAdvanced == InitAdvanced /\ [][NextAdvanced]_vars

\* the caller takes the outcome of the call that returned
Return ==
    /\ Pending
    /\ out' = NoOut
    /\ ret' = NoRet
    /\ UNCHANGED <<models, label_encoders, is_trained, pc, data, fits, call>>
    /\ UNCHANGED <<input, result>>

---------------------------------------------------------------------------
\* One caller (the console menu): a call starts when no other call is in progress.
Next ==
    \/ train_models
    \/ prepare_data_call
    \/ train_revenue_model
    \/ train_promotion_success_model
    \/ train_time_series_model
    \/ train_time_series_model_except
    \/ train_price_optimization_model
    \/ train_models_return
    \/ revenue_prediction
    \/ revenue_prediction_predict
    \/ promotion_success_analysis
    \/ promotion_success_analysis_predict
    \/ time_series_forecasting
    \/ price_optimization
    \/ Return

Spec == Init /\ [][Next]_vars

\* Several callers: inference calls interleave with the steps of train_models.
concurrent_train_models == TrainModels(FALSE)
concurrent_prepare_data == PrepareData(FALSE)
concurrent_revenue_prediction == Begin("revenue_prediction", FALSE)
concurrent_promotion_success_analysis == Begin("promotion_success", FALSE)
concurrent_time_series_forecasting == TimeSeriesForecasting(FALSE)
concurrent_price_optimization == PriceOptimization(FALSE)

NextConcurrent ==
    \/ concurrent_train_models
    \/ concurrent_prepare_data
    \/ train_revenue_model
    \/ train_promotion_success_model
    \/ train_time_series_model
    \/ train_time_series_model_except
    \/ train_price_optimization_model
    \/ train_models_return
    \/ concurrent_revenue_prediction
    \/ revenue_prediction_predict
    \/ concurrent_promotion_success_analysis
    \/ promotion_success_analysis_predict
    \/ concurrent_time_series_forecasting
    \/ concurrent_price_optimization
    \/ Return

SpecConcurrent == Init /\ [][NextConcurrent]_vars

---------------------------------------------------------------------------
\* Properties.

\* the slot is Trained: its key is in self.models
Trained(s) == models[s].st # "absent"

\* the positions of train_models at which the trainer of slot s runs
TrainerOf(s) ==
    CASE s = "revenue_prediction" -> {"revenue"}
      [] s = "promotion_success" -> {"promotion"}
      [] s = "time_series" -> {"time_series", "smoothing"}
      [] s = "price_optimization" -> {"price"}

\* C1: every slot starts absent; a slot changes only in the step of its own
\* trainer inside train_models, which leaves it present and holding the object
\* of the running call; a present slot never becomes absent; one step assigns
\* at most one slot.
C1_SlotLifecycle ==
    /\ \A s \in Slots : ~Trained(s)
    /\ [][ /\ \A s \in Slots :
                /\ Trained(s) => models'[s].st # "absent"
                /\ models'[s] # models[s] =>
                      /\ pc \in TrainerOf(s)
                      /\ models'[s].st # "absent"
                      /\ models'[s].run = data.run
           /\ Cardinality({s \in Slots : models'[s] # models[s]}) <= 1 ]_vars

\* a retrain replaced the revenue slot while the price slot still holds the
\* model of the first run
C1_Witness ==
    /\ models["revenue_prediction"].run = 2
    /\ models["price_optimization"].run = 1

\* C2: a train_models call on fewer than 5 rows returns normally (it does not
\* raise), leaves every slot as it was and leaves is_trained as it was.
C2_InsufficientData ==
    [][ (pc = "idle" /\ ret' # ret /\ fits' = fits + 1 /\ ret'.rows < MinRows) =>
            /\ ret'.status = "insufficient"
            /\ pc' = "idle"
            /\ models' = models
            /\ is_trained' = is_trained ]_vars

\* train_models returned on 4 rows with the revenue slot still absent
C2_Witness ==
    /\ ret.status = "insufficient"
    /\ ret.rows = MinRows - 1
    /\ ~Trained("revenue_prediction")
    /\ ~is_trained

\* C3: whatever happens in the trainer of one slot, train_models goes on to
\* the trainer of the next slot, and no train_models call ends by raising.
C3_FailureIsLocal ==
    [][ /\ pc = "revenue" => pc' = "promotion"
        /\ pc = "promotion" => pc' = "time_series"
        /\ pc = "time_series" => pc' \in {"smoothing", "price"}
        /\ pc = "smoothing" => pc' = "price"
        /\ pc = "price" => pc' = "set_trained"
        /\ ret'.status # "raised" ]_vars

\* C4: an inference operation started on an absent slot ends at once with the
\* not-trained outcome: no prediction, no exception, whatever the other slots hold.
C4_UntrainedSlot ==
    [][ \A s \in Slots :
          (call = NoCall /\ out = NoOut /\ ~Trained(s) /\ (out'.op = s \/ call'.op = s)) =>
              /\ out' = NotTrained(s)
              /\ call' = NoCall ]_vars

\* promotion_success_analysis found its slot absent while the other three are present
C4_Witness ==
    /\ out = NotTrained("promotion_success")
    /\ \A s \in Slots \ {"promotion_success"} : Trained(s)

\* C5: a revenue prediction is only ever produced for a category that the
\* stored revenue model saw in its training data, and never with the default code.
C5_UnseenCategoryIsError ==
    (out.op = "revenue_prediction" /\ out.status = "ok") =>
        /\ out.cat \in models["revenue_prediction"].classes
        /\ ~out.defaulted

\* C6: between calls, the stored encoder is the one fit on the input that the
\* stored revenue_prediction and promotion_success models were fit on.
C6_EncoderMatchesModels ==
    pc = "idle" =>
        \A s \in {"revenue_prediction", "promotion_success"} :
            Trained(s) => (label_encoders.has /\ label_encoders.run = models[s].run)

\* C7: an inference call that finishes while train_models is running used an
\* encoder and a model that come from the same training input.
C7_NoHalfUpdatedBundle ==
    (out.status = "ok" /\ out.op \in {"revenue_prediction", "promotion_success"}
        /\ pc # "idle") =>
        out.enc = out.model

\* C8: the revenue reported by revenue_prediction is never negative.
C8_RevenueNonNegative ==
    (out.op = "revenue_prediction" /\ out.status = "ok") => out.value >= 0

\* C9: a reported success probability lies in [0, 1] (0..100 percent), from the
\* classifier or from the fallback value.
C9_ProbabilityInRange ==
    (out.op = "promotion_success" /\ out.status = "ok") =>
        (0 <= out.value /\ out.value <= 100)

\* the fallback value was reported: the stored object has no predict_proba
C9_Witness ==
    /\ out.op = "promotion_success"
    /\ out.status = "ok"
    /\ out.value = DefaultSuccessProb
    /\ models["promotion_success"].st = "none"

\* C10: a forecast for N >= 1 days has exactly N points, the i-th for day i.
C10_ForecastLength ==
    (out.op = "time_series" /\ out.status = "ok") =>
        /\ out.days >= 1
        /\ Len(out.points) = out.days
        /\ \A i \in 1..out.days : out.points[i][1] = i

\* the fallback model produced a forecast over the longest horizon
C10_Witness ==
    /\ out.op = "time_series"
    /\ out.status = "ok"
    /\ out.days = MaxDays
    /\ models["time_series"].algo = "exponential_smoothing"

\* C11: the recommended price is one of current_price x {0.9, 0.95, 1.0, 1.05,
\* 1.1}, whatever the prices and revenues typed in and whatever the model returns.
C11_RecommendedIsCandidate ==
    result.fn = "price_optimization" =>
        result.price \in {(input.current_price * k) \div 100 : k \in {90, 95, 100, 105, 110}}

\* the highest candidate was recommended
C11_Witness ==
    /\ result.fn = "price_optimization"
    /\ input.current_price = 20
    /\ result.price = 22
    /\ result.advice = "increase"

\* C12: every one of the five candidates, the unchanged price included, is
\* passed through the model, and the recommended candidate is one whose
\* model-predicted revenue is the maximum of the five.
C12_MaxOfFivePredictions ==
    result.fn = "price_optimization" =>
        /\ result.scored = 1..Len(TestPrices)
        /\ \E i \in 1..Len(TestPrices) :
              /\ test_prices(input.current_price)[i] = result.price
              /\ \A j \in 1..Len(TestPrices) : input.predicted[j] <= input.predicted[i]

\* C13: when the success labels of the promoted rows are all equal, the
\* promotion-success trainer stores nothing and returns to train_models
\* without raising.
C13_DegenerateLabels ==
    [][ (pc = "promotion" /\ data.promo >= MinPromoRows /\ data.oneLabel) =>
            /\ models' = models
            /\ pc' = "time_series"
            /\ ret'.status # "raised" ]_vars

\* C14: the first fit tried is ARIMA; exponential smoothing is fitted only in
\* the handler of a failed ARIMA fit, on the same series; neither failure
\* leaves train_time_series_model, and when both fail the slot is as it was
\* and the price trainer is next.
C14_ArimaThenSmoothing ==
    [][ /\ pc = "time_series" =>
              /\ ret'.status # "raised"
              /\ models' # models => models'["time_series"].algo = "arima"
        /\ pc' = "smoothing" =>
              /\ pc = "time_series"
              /\ data.dates >= MinDates
              /\ models' = models
              /\ data' = data
        /\ pc = "smoothing" =>
              /\ ret'.status # "raised"
              /\ pc' = "price"
              /\ \/ models' = models
                 \/ models' = [models EXCEPT !["time_series"] =
                                  FittedSeries("exponential_smoothing", data)]
        /\ (models'["time_series"] # models["time_series"]
              /\ models'["time_series"].algo = "exponential_smoothing") =>
              pc = "smoothing" ]_vars

\* both fits failed on a series of 10 dates and the price trainer ran after them
C14_Witness ==
    /\ pc = "set_trained"
    /\ data.dates >= MinDates
    /\ ~Trained("time_series")
    /\ models["price_optimization"].run = data.run

\* C17: when some candidate has a test-split score, the object stored is a
\* candidate whose test-split score no other candidate exceeds and which no
\* earlier candidate equals; the cross-validation scores play no part.
C17_BestTestScoreFirst ==
    (result.fn = "select" /\ \E i \in DOMAIN input.test_score : input.test_score[i].k = "num") =>
        LET cands == Candidates(input.trainer)
            sc == input.test_score
        IN \E i \in 1..Len(cands) :
              /\ result.stored.st = "fitted"
              /\ result.stored.algo = cands[i]
              /\ sc[i].k = "num"
              /\ \A j \in 1..Len(cands) : sc[j].k = "num" => sc[j].v <= sc[i].v
              /\ \A j \in 1..(i - 1) : sc[j] # sc[i]

\* C15: the promotion_success slot is written only when at least 10 rows have
\* a promotion_id, and every row the classifier is fitted on has one; with
\* fewer than 10 such rows the trainer returns without writing and without raising.
C15_PromotedRowsOnly ==
    result.fn = "promotion_rows" =>
        LET promoted == {i \in DOMAIN input.promotion_id : input.promotion_id[i] # Null} IN
        /\ result.written =>
              /\ Cardinality(promoted) >= 10
              /\ result.fit_rows # {}
              /\ result.fit_rows \subseteq promoted
        /\ Cardinality(promoted) < 10 =>
              /\ ~result.written
              /\ result.status = "insufficient"

\* a classifier was stored from a table of 11 rows, one of them without promotion
C15_Witness ==
    /\ result.fn = "promotion_rows"
    /\ result.written
    /\ Len(input.promotion_id) = 11
    /\ \E i \in 1..11 : input.promotion_id[i] = Null
    /\ Cardinality(result.fit_rows) = 8

\* C16: the time_series slot is written only when the sales cover at least 10
\* distinct dates, the series holding for each of these dates the sum of the
\* revenue of its sales; with fewer than 10 distinct dates the trainer returns
\* without writing and without raising.
C16_DailySums ==
    result.fn = "daily_revenue" =>
        LET sales == input.sales
            dates == {sales[i].date : i \in DOMAIN sales}
        IN /\ result.written =>
                 /\ Cardinality(dates) >= 10
                 /\ {result.series[k].date : k \in DOMAIN result.series} = dates
                 /\ Len(result.series) = Cardinality(dates)
                 /\ \A k \in DOMAIN result.series :
                       result.series[k].revenue = SumRevenue(sales, result.series[k].date, 1)
           /\ Cardinality(dates) < 10 =>
                 /\ ~result.written
                 /\ result.status = "insufficient"

\* a model was stored for a series of 10 dates, one of them with two sales
C16_Witness ==
    /\ result.fn = "daily_revenue"
    /\ result.written
    /\ Len(result.series) = 10
    /\ Len(input.sales) = 11
    /\ \E k \in DOMAIN result.series : result.series[k].revenue = 15

\* C18: the series the model is fitted on has one entry for every calendar day
\* from the earliest to the latest sale date, in order, and a day of that
\* range without a sale has revenue 0.
C18_CompleteCalendar ==
    (result.fn = "daily_revenue" /\ result.series # <<>>) =>
        LET sales == input.sales
            dates == {sales[i].date : i \in DOMAIN sales}
            first == Nth(dates, 1)
            last == Nth(dates, Cardinality(dates))
        IN /\ Len(result.series) = last - first + 1
           /\ \A k \in DOMAIN result.series :
                 /\ result.series[k].date = first + k - 1
                 /\ result.series[k].date \notin dates => result.series[k].revenue = 0

\* no two rows of the table have the same id
UniqueIds(table) ==
    \A i, j \in DOMAIN table : table[i].id = table[j].id => i = j

\* C20: with unique product and promotion ids, prepare_data yields one row per
\* sale, in order; a sale without promotion_id has has_promotion 0 and
\* discount_amount 0 in the training features; a sale whose product has no
\* category gets the category "Unknown" and a code of the encoder.
C20_OneRowPerSale ==
    (result.fn = "prepare_data" /\ UniqueIds(input.products)
        /\ UniqueIds(input.promotions)) =>
        /\ Len(result.rows) = Len(input.sales)
        /\ \A i \in DOMAIN result.rows :
              /\ result.rows[i].sale = input.sales[i].id
              /\ input.sales[i].promotion_id = Null =>
                    /\ result.rows[i].has_promotion = 0
                    /\ result.X[i].has_promotion = 0
                    /\ result.X[i].discount_amount = 0
              /\ (\A k \in DOMAIN input.products :
                      input.products[k].id = input.sales[i].product_id =>
                          input.products[k].category = NullText) =>
                    /\ result.rows[i].category = "Unknown"
                    /\ "Unknown" \in result.classes
                    /\ result.rows[i].category_encoded =
                          Cardinality(result.classes \ {"Unknown"})

\* two sales gave two rows: one without promotion_id for the product without
\* category, one with a promotion_id that matches no promotion
C20_Witness ==
    /\ result.fn = "prepare_data"
    /\ UniqueIds(input.products)
    /\ UniqueIds(input.promotions)
    /\ Len(input.products) = 2
    /\ Len(result.rows) = 2
    /\ input.sales[1].promotion_id = Null
    /\ input.sales[1].product_id = 2
    /\ result.rows[1].category_encoded = 1
    /\ input.sales[2].promotion_id = 2
    /\ input.sales[2].product_id = 1
    /\ result.rows[2].has_promotion = 1

\* C19: a step of an inference operation, whatever it was given and however
\* it ends, leaves models, label_encoders and is_trained as they were, and the
\* operation ends with a printed outcome, never by raising.
C19_InferenceReadOnly ==
    [][ (call' # call \/ (out' # out /\ out' # NoOut)) =>
            /\ models' = models
            /\ label_encoders' = label_encoders
            /\ is_trained' = is_trained
            /\ out'.status \in {"-", "ok", "error", "not_trained", "unsupported"} ]_vars

\* revenue_prediction ended in its except branch with every slot still present
C19_Witness ==
    /\ out.op = "revenue_prediction"
    /\ out.status = "error"
    /\ is_trained
    /\ \A s \in Slots : Trained(s)

\* C21: in every feature row with a discount_amount, net_revenue is revenue
\* minus discount_amount and discount_amount is price x discount / 100 x
\* has_promotion; so a promoted row with a positive discount and a positive
\* price has net_revenue below revenue.
C21_NetRevenue ==
    result.fn = "prepare_data" =>
        \A i \in DOMAIN result.rows :
            LET r == result.rows[i] IN
            r.discount_amount # Null =>
                /\ r.discount_amount = ((r.price * r.discount) \div 100) * r.has_promotion
                /\ r.net_revenue = r.revenue - r.discount_amount
                /\ (r.has_promotion = 1 /\ r.discount > 0 /\ r.price > 0) =>
                        r.net_revenue < r.revenue

\* C22: a candidate that differs from the current price by -10%, -5%, +5%,
\* +10% is scored with the quantity current_quantity x 1.05, 1.025, 0.975,
\* 0.95 (in thousandths: minus one half of the relative price change), and
\* nothing else enters the quantity.
C22_HalfElasticity ==
    result.fn = "price_optimization" =>
        LET change == <<50, 25, 0, -25, -50>> IN
        \A i \in result.scored :
            /\ i # 3
            /\ result.quantity[i] = input.current_quantity * (1000 + change[i])
            /\ (result.quantity[i] - 1000 * input.current_quantity) * input.current_price * 2 =
                   -1000 * input.current_quantity *
                       (test_prices(input.current_price)[i] - input.current_price)

\* the four changed candidates of price 20 were scored, the lowest with 4.2 units
C22_Witness ==
    /\ result.fn = "price_optimization"
    /\ input.current_price = 20
    /\ input.current_quantity = 4
    /\ result.scored = {1, 2, 4, 5}
    /\ result.quantity[1] = 4200
    /\ result.quantity[5] = 3800

\* C26: the recommended revenue is never below current_revenue; the
\* recommended price differs from current_price only if a scored candidate's
\* prediction exceeds current_revenue; and when one does, the recommendation
\* is the first candidate, in enumeration order, with the highest prediction.
C26_FirstBestCandidate ==
    result.fn = "price_optimization" =>
        LET prices == test_prices(input.current_price)
            better == {i \in result.scored : input.predicted[i] > input.current_revenue}
            top == {i \in result.scored :
                       \A j \in result.scored : input.predicted[j] <= input.predicted[i]}
        IN /\ result.revenue >= input.current_revenue
           /\ result.price # input.current_price => better # {}
           /\ better = {} =>
                 /\ result.price = input.current_price
                 /\ result.revenue = input.current_revenue
           /\ better # {} =>
                 \E i \in top :
                    /\ \A j \in top : i <= j
                    /\ result.price = prices[i]
                    /\ result.revenue = input.predicted[i]

\* the candidates 19 and 21 share the highest prediction: 19 is recommended
C26_Witness ==
    /\ result.fn = "price_optimization"
    /\ input.current_price = 20
    /\ input.current_revenue = 7
    /\ input.predicted[1] = 7
    /\ input.predicted[2] = 9
    /\ input.predicted[4] = 9
    /\ result.price = 19
    /\ result.revenue = 9

\* C23: the band printed for a success probability p is high iff p > 0.7,
\* medium iff 0.5 <= p <= 0.7, low iff p < 0.5.
C23_Bands ==
    (out.op = "promotion_success" /\ out.status = "ok") =>
        out.band = (IF out.value > 70 THEN "high"
                    ELSE IF out.value >= 50 THEN "medium"
                    ELSE "low")

\* C24: a slot whose key is present holds a fitted model, never None.
C24_NoNullSlot ==
    \A s \in Slots : Trained(s) => models[s].st = "fitted"

\* C25: is_trained implies that the revenue_prediction and price_optimization
\* keys are present; it is set only in the step that follows the four
\* trainers, which run in the order revenue, promotion success, time series,
\* price optimization; once True it stays True.
C25_IsTrained ==
    /\ [](is_trained => (Trained("revenue_prediction") /\ Trained("price_optimization")))
    /\ [][ /\ is_trained => is_trained'
           /\ is_trained' # is_trained => pc = "set_trained"
           /\ (pc' # pc /\ pc' = "set_trained") => pc = "price"
           /\ (pc' # pc /\ pc' = "price") => pc \in {"time_series", "smoothing"}
           /\ (pc' # pc /\ pc' = "smoothing") => pc = "time_series"
           /\ (pc' # pc /\ pc' = "time_series") => pc = "promotion"
           /\ (pc' # pc /\ pc' = "promotion") => pc = "revenue"
           /\ (pc' # pc /\ pc' = "revenue") => pc = "idle" ]_vars

\* is_trained is True while the promotion_success and time_series keys are absent
C25_Witness ==
    /\ is_trained
    /\ ~Trained("promotion_success")
    /\ ~Trained("time_series")
    /\ Trained("revenue_prediction")
    /\ Trained("price_optimization")

\* C27: of n >= 10 promoted rows at most floor(n/2) are labelled success, at
\* least one is labelled not-success, and none is labelled success exactly
\* when the largest revenue equals the median.
C27_MedianSplit ==
    result.fn = "success" =>
        LET n == Len(input.revenue)
            ones == {i \in 1..n : result.success[i] = 1}
            largest == CHOOSE v \in {input.revenue[i] : i \in 1..n} :
                          \A i \in 1..n : input.revenue[i] <= v
        IN /\ Cardinality(ones) <= n \div 2
           /\ \E i \in 1..n : result.success[i] = 0
           /\ (ones = {}) = (2 * largest = result.median2)

\* 11 rows, five of them above the median
C27_Witness ==
    /\ result.fn = "success"
    /\ Len(input.revenue) = 11
    /\ Cardinality({i \in 1..11 : result.success[i] = 1}) = 5
    /\ result.median2 = 40

\* C28: for every month, the quarter passed to the prediction calls is the
\* calendar quarter of that month, the one derived from a date at training
\* time, and lies in 1..4.
C28_QuarterOfMonth ==
    (result.fn \in {"analyze_promotion_advanced", "optimize_price_advanced"}
        /\ result.status = "advanced") =>
        \A k \in DOMAIN result.args :
            /\ result.args[k].quarter = dt_quarter(result.args[k].month)
            /\ result.args[k].quarter \in 1..4

\* C29: the predictions for the current, the higher and the lower price are
\* asked for with three different inputs, and the strategy is raise iff
\* higher > current and higher > lower, lower iff lower > current and lower >
\* higher, hold otherwise.
C29_ThreeScenarios ==
    (result.fn = "optimize_price_advanced" /\ result.status = "advanced") =>
        LET current == predict_revenue(input.model, result.args[1])
            higher == predict_revenue(input.model, result.args[2])
            lower == predict_revenue(input.model, result.args[3])
        IN /\ result.args[1] # result.args[2]
           /\ result.args[1] # result.args[3]
           /\ result.args[2] # result.args[3]
           /\ input.model # "none" =>
                 /\ (result.strategy = "raise") = (higher > current /\ higher > lower)
                 /\ (result.strategy = "lower") = (lower > current /\ lower > higher)
                 /\ result.strategy \in {"raise", "lower", "hold"}

\* C30: analyze_promotion_advanced returns a result mapping for every
\* promotion in storage, whatever its product_id, and an error mapping for
\* an id that is not in storage; it never raises.
C30_AnalyzeNeverRaises ==
    result.fn = "analyze_promotion_advanced" =>
        /\ input.promotion = "missing" => result.status = "error"
        /\ input.promotion # "missing" => result.status \in {"basic", "advanced"}

====
